---- MODULE Spec2Model ----
(***************************************************************************)
(* hypr-binds (src/hypr-binds.py): list the window manager's key bindings, *)
(* group directional / numeric variants, render them as a two-column text  *)
(* table and optionally wait for a key press.                              *)
(*                                                                         *)
(* A Python str is modelled as a sequence of one-character strings, a list *)
(* as a sequence, a dict with string keys as a record.                     *)
(***************************************************************************)
EXTENDS Integers, Sequences, FiniteSets, TLC

VARIABLES
    source,        \* what `hyprctl binds -j` reports (the environment's input)
    no_group,      \* args.no_group
    wait,          \* args.wait
    sort,          \* args.sort
    pc,            \* position of main() / wait_for_any_key()
    binds,         \* main: binds
    processed,     \* main: processed
    flat,          \* main: flat
    width,         \* main: width (terminal columns - 2)
    out,           \* lines printed by draw_table, in order
    exit_code,     \* process exit status, -1 while running, -2 when ended by SIGINT
    term_mode,     \* the terminal's current settings
    old_settings,  \* wait_for_any_key: old_settings ("unset" before tcgetattr)
    restored,      \* the tcsetattr call of the finally clause: "no", "ok", "failed"
    pending,       \* the call of the try block whose exception is propagating, or "none"
    exc,           \* the kind of that exception: "none", "error", "KeyboardInterrupt"
    arg,           \* fingerprint harness: the argument string
    match1,        \* fingerprint harness: the transform applied once
    match2         \* fingerprint harness: the transform applied twice

vars == <<source, no_group, wait, sort, pc, binds, processed, flat, width, out,
          exit_code, term_mode, old_settings, restored, pending, exc,
          arg, match1, match2>>

(***************************************************************************)
(* Bounds of the model.                                                    *)
(***************************************************************************)
MaxBinds == 3      \* longest list of raw bindings the source reports
MaxTokens == 3     \* longest argument string of the fingerprint harness, in tokens

(***************************************************************************)
(* Strings.                                                                *)
(***************************************************************************)
\* Printable ASCII in code-point order; Ascii[i] has code point 31 + i.
\* The double quote (34), the backslash (92) and the backquote (96) keep their
\* places as empty entries: no string of the model contains them.
Ascii ==
    <<" ", "!", "", "#", "$", "%", "&", "'", "(", ")", "*", "+", ",", "-", ".", "/",
      "0", "1", "2", "3", "4", "5", "6", "7", "8", "9", ":", ";", "<", "=", ">", "?",
      "@", "A", "B", "C", "D", "E", "F", "G", "H", "I", "J", "K", "L", "M", "N", "O",
      "P", "Q", "R", "S", "T", "U", "V", "W", "X", "Y", "Z", "[", "", "]", "^", "_",
      "", "a", "b", "c", "d", "e", "f", "g", "h", "i", "j", "k", "l", "m", "n", "o",
      "p", "q", "r", "s", "t", "u", "v", "w", "x", "y", "z", "{", "|", "}", "~">>

\* ord(c)
Ord(c) == 31 + (CHOOSE i \in 1..Len(Ascii) : Ascii[i] = c)

Digits == {"0", "1", "2", "3", "4", "5", "6", "7", "8", "9"}

\* str.startswith
StartsWith(s, w) == Len(s) >= Len(w) /\ SubSeq(s, 1, Len(w)) = w

\* s[n:]
Drop(s, n) == SubSeq(s, n + 1, Len(s))

\* str comparison a < b: lexicographic by code point.
RECURSIVE StrLess(_, _)
StrLess(a, b) ==
    IF b = <<>> THEN FALSE
    ELSE IF a = <<>> THEN TRUE
    ELSE IF Head(a) = Head(b) THEN StrLess(Tail(a), Tail(b))
    ELSE Ord(Head(a)) < Ord(Head(b))

\* sep.join(parts)
RECURSIVE Join(_, _)
Join(sep, parts) ==
    IF parts = <<>> THEN <<>>
    ELSE IF Len(parts) = 1 THEN parts[1]
    ELSE parts[1] \o sep \o Join(sep, Tail(parts))

\* str(n) for n >= 0
RECURSIVE IntStr(_)
IntStr(n) ==
    IF n < 10 THEN <<Ascii[17 + n]>>
    ELSE IntStr(n \div 10) \o <<Ascii[17 + (n % 10)]>>

\* ch * n
RECURSIVE Repeat(_, _)
Repeat(ch, n) == IF n <= 0 THEN <<>> ELSE <<ch>> \o Repeat(ch, n - 1)

\* s.ljust(n): pad with spaces on the right, never truncate
Ljust(s, n) == s \o Repeat(" ", n - Len(s))

(***************************************************************************)
(* Arg-shape fingerprint (group_keybinds, lines 54-57).                    *)
(***************************************************************************)
\* the replacement text ".."
Placeholder == <<".", ".">>

\* the alternatives of the second pattern, in the order the regex tries them
Directions ==
    << <<"l", "e", "f", "t">>, <<"r", "i", "g", "h", "t">>, <<"u", "p">>,
       <<"d", "o", "w", "n">>, <<"l">>, <<"r">>, <<"u">>, <<"d">> >>

\* s with its leading digits removed (the rest of a maximal digit run)
RECURSIVE DropDigits(_)
DropDigits(s) ==
    IF s # <<>> /\ Head(s) \in Digits THEN DropDigits(Tail(s)) ELSE s

\* a wrong variant: re.sub(r"\d+", "..", arg, count=1)
RECURSIVE SubDigitsFirstOnly(_)
SubDigitsFirstOnly(s) ==
    IF s = <<>> THEN <<>>
    ELSE IF Head(s) \in Digits THEN Placeholder \o DropDigits(Tail(s))
    ELSE <<Head(s)>> \o SubDigitsFirstOnly(Tail(s))

\* re.sub(r"\d+", "..", arg)
RECURSIVE SubDigits(_)
SubDigits(s) ==
    IF s = <<>> THEN <<>>
    ELSE IF Head(s) \in Digits THEN Placeholder \o SubDigits(DropDigits(Tail(s)))
    ELSE <<Head(s)>> \o SubDigits(Tail(s))

\* index of the first alternative that matches at the start of s, 0 if none
FirstAlt(s) ==
    LET hits == {i \in 1..Len(Directions) : StartsWith(s, Directions[i])}
    IN IF hits = {} THEN 0 ELSE CHOOSE i \in hits : \A j \in hits : i <= j

\* a wrong variant: the pattern anchored to the whole argument,
\* r"^(left|right|up|down|l|r|u|d)$"
SubDirectionsWholeOnly(s) ==
    IF \E i \in 1..Len(Directions) : s = Directions[i] THEN Placeholder ELSE s

\* re.sub(r"(left|right|up|down|l|r|u|d)", "..", match)
RECURSIVE SubDirections(_)
SubDirections(s) ==
    IF s = <<>> THEN <<>>
    ELSE LET i == FirstAlt(s)
         IN IF i = 0 THEN <<Head(s)>> \o SubDirections(Tail(s))
            ELSE Placeholder \o SubDirections(Drop(s, Len(Directions[i])))

\* lines 55-56: the key of by_arg
Fingerprint(a) == SubDirections(SubDigits(a))

(***************************************************************************)
(* Modifier labels and single-binding labels (lines 16-41).                *)
(***************************************************************************)
\* lines 16-22: the modifier mask map
MODMASKS ==
    (64 :> <<"S", "U", "P", "E", "R">>)
    @@ (65 :> <<"S", "U", "P", "E", "R", "+", "S", "H", "I", "F", "T">>)
    @@ (68 :> <<"S", "U", "P", "E", "R", "+", "C", "T", "R", "L">>)
    @@ (72 :> <<"S", "U", "P", "E", "R", "+", "S", "H", "I", "F", "T", "+", "C", "T", "R", "L">>)
    @@ (0 :> <<>>)

\* MODMASKS.get(modmask, f"MOD_{modmask}")
format_modmask(modmask) ==
    IF modmask \in DOMAIN MODMASKS THEN MODMASKS[modmask]
    ELSE <<"M", "O", "D", "_">> \o IntStr(modmask)

\* f"{mod}+{key}" if mod else key
format_keybind(entry) ==
    LET mod == format_modmask(entry.modmask)
        key == entry.key
    IN IF mod # <<>> THEN mod \o <<"+">> \o key ELSE key

(***************************************************************************)
(* group_keybinds (lines 44-72).  An insertion-ordered dict is a sequence  *)
(* of <<key, list>> pairs in first-insertion order.                        *)
(***************************************************************************)
\* d.setdefault(k, []).append(v)
SetDefaultAppend(d, k, v) ==
    IF \E i \in 1..Len(d) : d[i][1] = k
    THEN [i \in 1..Len(d) |-> IF d[i][1] = k THEN <<k, Append(d[i][2], v)>> ELSE d[i]]
    ELSE Append(d, <<k, <<v>>>>)

\* lines 45-48: groups, keyed by (modmask, dispatcher)
RECURSIVE BuildGroups(_, _)
BuildGroups(bs, groups) ==
    IF bs = <<>> THEN groups
    ELSE BuildGroups(Tail(bs),
             SetDefaultAppend(groups, <<Head(bs).modmask, Head(bs).dispatcher>>, Head(bs)))

\* lines 52-57: by_arg, keyed by the fingerprint of the argument
RECURSIVE BuildByArg(_, _)
BuildByArg(entries, by_arg) ==
    IF entries = <<>> THEN by_arg
    ELSE BuildByArg(Tail(entries),
             SetDefaultAppend(by_arg, Fingerprint(Head(entries).arg), Head(entries)))

\* a wrong variant: keys and args collected from group[1:]
EmitGroupSkipFirst(dispatcher, group) ==
    IF Len(group) = 1 THEN group
    ELSE LET mod == format_modmask(group[1].modmask)
             keys == [i \in 1..(Len(group) - 1) |-> group[i + 1].key]
             args == [i \in 1..(Len(group) - 1) |-> group[i + 1].arg]
         IN << [key |-> mod \o <<"+">> \o Join(<<"/">>, keys),
                action |-> dispatcher \o <<" ">> \o Join(<<"/">>, args)] >>

\* a wrong variant: members listed last-first
EmitGroupReversed(dispatcher, group) ==
    IF Len(group) = 1 THEN group
    ELSE LET mod == format_modmask(group[1].modmask)
             keys == [i \in 1..Len(group) |-> group[Len(group) + 1 - i].key]
             args == [i \in 1..Len(group) |-> group[Len(group) + 1 - i].arg]
         IN << [key |-> mod \o <<"+">> \o Join(<<"/">>, keys),
                action |-> dispatcher \o <<" ">> \o Join(<<"/">>, args)] >>

\* lines 60-71: what one by_arg list adds to result
EmitGroup(dispatcher, group) ==
    IF Len(group) = 1 THEN group
    ELSE LET mod == format_modmask(group[1].modmask)
             keys == [i \in 1..Len(group) |-> group[i].key]
             args == [i \in 1..Len(group) |-> group[i].arg]
             key_expr == mod \o <<"+">> \o Join(<<"/">>, keys)
             action_expr == dispatcher \o <<" ">> \o Join(<<"/">>, args)
         IN << [key |-> key_expr, action |-> action_expr] >>

\* lines 59-71 over every list of one by_arg
RECURSIVE EmitByArg(_, _)
EmitByArg(dispatcher, by_arg) ==
    IF by_arg = <<>> THEN <<>>
    ELSE EmitGroup(dispatcher, Head(by_arg)[2]) \o EmitByArg(dispatcher, Tail(by_arg))

\* lines 51-71 over every (modmask, dispatcher) group
RECURSIVE EmitGroups(_)
EmitGroups(groups) ==
    IF groups = <<>> THEN <<>>
    ELSE EmitByArg(Head(groups)[1][2], BuildByArg(Head(groups)[2], <<>>))
         \o EmitGroups(Tail(groups))

\* group_keybinds(binds)
group_keybinds(bs) == EmitGroups(BuildGroups(bs, <<>>))

(***************************************************************************)
(* normalize_keybinds (lines 75-85).                                       *)
(***************************************************************************)
\* lines 78-84 for one record
NormalizeOne(b) ==
    IF "key" \in DOMAIN b /\ "action" \in DOMAIN b THEN b
    ELSE [key |-> format_keybind(b), action |-> b.dispatcher \o <<" ">> \o b.arg]

\* a wrong variant: a record equal to its predecessor is skipped
normalize_keybinds_dedup(bs) ==
    LET all == [i \in 1..Len(bs) |-> NormalizeOne(bs[i])]
        keep == {i \in 1..Len(bs) : i = 1 \/ all[i] # all[i - 1]}
        RECURSIVE Pick(_)
        Pick(i) == IF i > Len(bs) THEN <<>>
                   ELSE (IF i \in keep THEN <<all[i]>> ELSE <<>>) \o Pick(i + 1)
    IN Pick(1)

\* normalize_keybinds(binds)
normalize_keybinds(bs) == [i \in 1..Len(bs) |-> NormalizeOne(bs[i])]

(***************************************************************************)
(* flat.sort(key=lambda x: x['key']) (line 132): a stable sort.            *)
(***************************************************************************)
\* x placed after every element whose key is not greater than its own
RECURSIVE InsertByKey(_, _)
InsertByKey(s, x) ==
    IF s = <<>> THEN <<x>>
    ELSE IF StrLess(x.key, Head(s).key) THEN <<x>> \o s
    ELSE <<Head(s)>> \o InsertByKey(Tail(s), x)

RECURSIVE SortFrom(_, _)
SortFrom(s, acc) ==
    IF s = <<>> THEN acc ELSE SortFrom(Tail(s), InsertByKey(acc, Head(s)))

SortByKey(s) == SortFrom(s, <<>>)

(***************************************************************************)
(* textwrap.wrap(text, width) with the defaults draw_table uses            *)
(* (break_long_words, drop_whitespace, no indents), for text whose only    *)
(* white space is " " and that holds no hyphen.                            *)
(***************************************************************************)
\* chunk.strip() == ''
Blank(c) == \A i \in 1..Len(c) : c[i] = " "

\* length of the leading run of s made of spaces (sp) or of non-spaces (~sp)
RECURSIVE RunLen(_, _)
RunLen(s, sp) ==
    IF s = <<>> \/ ((Head(s) = " ") # sp) THEN 0 ELSE 1 + RunLen(Tail(s), sp)

\* TextWrapper._split: maximal runs of white space and of other characters
RECURSIVE Chunks(_)
Chunks(s) ==
    IF s = <<>> THEN <<>>
    ELSE LET n == RunLen(s, Head(s) = " ")
         IN <<SubSeq(s, 1, n)>> \o Chunks(Drop(s, n))

\* sum(map(len, cur_line))
RECURSIVE TotalLen(_)
TotalLen(cs) == IF cs = <<>> THEN 0 ELSE Len(Head(cs)) + TotalLen(Tail(cs))

\* the inner while loop: chunks move to cur_line while they fit
RECURSIVE Fill(_, _, _)
Fill(chunks, cur_line, w) ==
    IF chunks # <<>> /\ TotalLen(cur_line) + Len(Head(chunks)) <= w
    THEN Fill(Tail(chunks), Append(cur_line, Head(chunks)), w)
    ELSE [cur_line |-> cur_line, chunks |-> chunks]

\* TextWrapper._handle_long_word with break_long_words
HandleLongWord(f, w) ==
    LET space_left == IF w < 1 THEN 1 ELSE w - TotalLen(f.cur_line)
        chunk == Head(f.chunks)
    IN [cur_line |-> Append(f.cur_line, SubSeq(chunk, 1, space_left)),
        chunks |-> <<Drop(chunk, space_left)>> \o Tail(f.chunks)]

\* TextWrapper._wrap_chunks: the outer while loop (w > 0)
RECURSIVE WrapChunks(_, _, _)
WrapChunks(chunks, w, lines) ==
    IF chunks = <<>> THEN lines
    ELSE LET c0 == IF Blank(Head(chunks)) /\ lines # <<>> THEN Tail(chunks) ELSE chunks
             f == Fill(c0, <<>>, w)
             g == IF f.chunks # <<>> /\ Len(Head(f.chunks)) > w
                  THEN HandleLongWord(f, w) ELSE f
             cur == IF g.cur_line # <<>> /\ Blank(g.cur_line[Len(g.cur_line)])
                    THEN SubSeq(g.cur_line, 1, Len(g.cur_line) - 1) ELSE g.cur_line
         IN WrapChunks(g.chunks, w,
                IF cur # <<>> THEN Append(lines, Join(<<>>, cur)) ELSE lines)

\* textwrap.wrap(text, w) for w > 0 (w <= 0 raises ValueError, see draw_table)
Wrap(text, w) == WrapChunks(Chunks(text), w, <<>>)

(***************************************************************************)
(* draw_table (lines 88-106).  A printed line is the sequence of its       *)
(* cells.  The box-drawing glyphs and the arrow are one cell each and are  *)
(* written with ASCII stand-ins: "-" horizontal, "|" vertical, "+" any     *)
(* corner or junction, ">" the arrow of the continuation marker.           *)
(***************************************************************************)
\* "Keybind" and "Action"
KeybindHeader == <<"K", "e", "y", "b", "i", "n", "d">>
ActionHeader == <<"A", "c", "t", "i", "o", "n">>

\* line 91
indent_marker == <<">", " ">>

Max(a, b) == IF a >= b THEN a ELSE b
Min(a, b) == IF a <= b THEN a ELSE b

\* max(len(e["key"]) for e in entries), entries not empty
MaxKeyLen(entries) ==
    LET lens == {Len(entries[i].key) : i \in 1..Len(entries)}
    IN CHOOSE m \in lens : \A n \in lens : n <= m

\* line 89
KeyWidth(entries, term_width) ==
    Min(Max(Len(KeybindHeader), MaxKeyLen(entries)) + 2, term_width \div 2)

\* line 90
ActionWidth(entries, term_width) == term_width - KeyWidth(entries, term_width) - 1

\* lines 93-94
BorderLine(kw, aw) == <<"+">> \o Repeat("-", kw) \o <<"+">> \o Repeat("-", aw) \o <<"+">>

\* line 104 for every wrapped line after the first
ContinuationRows(extra, kw, aw) ==
    [j \in 1..Len(extra) |->
        <<"|">> \o Ljust(<<" ">>, kw) \o <<"|">> \o indent_marker
        \o Ljust(extra[j], aw - Len(indent_marker)) \o <<"|">>]

\* lines 100-106 from entry i on: the lines printed, and whether an
\* exception (ValueError of textwrap for a width <= 0, IndexError of
\* action_lines[0] for an action without a word) ended the loop
RECURSIVE Rows(_, _, _, _)
Rows(entries, i, kw, aw) ==
    IF i > Len(entries) THEN [lines |-> <<>>, raised |-> FALSE]
    ELSE IF aw - Len(indent_marker) <= 0 THEN [lines |-> <<>>, raised |-> TRUE]
    ELSE LET e == entries[i]
             action_lines == Wrap(e.action, aw - Len(indent_marker))
         IN IF action_lines = <<>> THEN [lines |-> <<>>, raised |-> TRUE]
            ELSE LET main == <<"|">> \o Ljust(e.key, kw) \o <<"|">>
                             \o Ljust(action_lines[1], aw) \o <<"|">>
                     here == <<main>> \o ContinuationRows(Tail(action_lines), kw, aw)
                             \o (IF i = Len(entries) THEN <<BorderLine(kw, aw)>> ELSE <<>>)
                     rest == Rows(entries, i + 1, kw, aw)
                 IN [lines |-> here \o rest.lines, raised |-> rest.raised]

\* draw_table(entries, term_width): max() of an empty sequence raises
\* ValueError before anything is printed
draw_table(entries, term_width) ==
    IF entries = <<>> THEN [lines |-> <<>>, raised |-> TRUE]
    ELSE LET kw == KeyWidth(entries, term_width)
             aw == ActionWidth(entries, term_width)
             head == << BorderLine(kw, aw),
                        <<"|">> \o Ljust(KeybindHeader, kw) \o <<"|">>
                        \o Ljust(ActionHeader, aw) \o <<"|">>,
                        BorderLine(kw, aw) >>
             body == Rows(entries, 1, kw, aw)
         IN [lines |-> head \o body.lines, raised |-> body.raised]

(***************************************************************************)
(* Inputs.                                                                 *)
(***************************************************************************)
\* Raw bindings as `hyprctl binds -j` reports them (the fields the program reads).
BindLeft ==
    [modmask |-> 64, key |-> <<"L", "e", "f", "t">>,
     dispatcher |-> <<"m", "o", "v", "e", "w", "i", "n", "d", "o", "w">>, arg |-> <<"l">>]
BindRight ==
    [modmask |-> 64, key |-> <<"R", "i", "g", "h", "t">>,
     dispatcher |-> <<"m", "o", "v", "e", "w", "i", "n", "d", "o", "w">>, arg |-> <<"r">>]
BindBar ==
    [modmask |-> 0, key |-> <<"Q">>, dispatcher |-> <<"e", "x", "e", "c">>,
     arg |-> <<"b", "a", "r">>]
BindBad ==
    [modmask |-> 0, key |-> <<"W">>, dispatcher |-> <<"e", "x", "e", "c">>,
     arg |-> <<"b", "a", "d">>]
BindPath ==
    [modmask |-> 0, key |-> <<"K">>, dispatcher |-> <<"e", "x", "e", "c">>,
     arg |-> <<"a", "/", "b">>]
BindF1 ==
    [modmask |-> 8, key |-> <<"F", "1">>,
     dispatcher |-> <<"w", "o", "r", "k", "s", "p", "a", "c", "e">>, arg |-> <<"1">>]

Pool == {BindLeft, BindRight, BindBar, BindBad, BindPath, BindF1}

\* every list of at most n elements of S
ListsUpTo(S, n) == UNION {[1..k -> S] : k \in 0..n}

\* terminal columns - 2 (line 130) for the terminals considered
TermWidths == {18, 30}

\* argument strings of the fingerprint harness: concatenations of tokens
Tokens ==
    { <<"l", "e", "f", "t">>, <<"r", "i", "g", "h", "t">>, <<"u", "p">>,
      <<"d", "o", "w", "n">>, <<"l">>, <<"r">>, <<"u">>, <<"d">>, <<"e">>, <<"f">>,
      <<"t">>, <<"p">>, <<"1">>, <<"2">>, <<"x">>, <<".">> }

TokenStrings == {Join(<<>>, ts) : ts \in ListsUpTo(Tokens, MaxTokens)}

(***************************************************************************)
(* main (lines 119-136) and wait_for_any_key (lines 109-116).              *)
(***************************************************************************)
Init ==
    /\ source \in ListsUpTo(Pool, MaxBinds)
    /\ no_group \in BOOLEAN
    /\ wait \in BOOLEAN
    /\ sort \in BOOLEAN
    /\ pc = "start"
    /\ binds = <<>>
    /\ processed = <<>>
    /\ flat = <<>>
    /\ width = 0
    /\ out = <<>>
    /\ exit_code = -1
    /\ term_mode = "cooked"
    /\ old_settings = "unset"
    /\ restored = "no"
    /\ pending = "none"
    /\ exc = "none"
    /\ arg = <<>>
    /\ match1 = <<>>
    /\ match2 = <<>>

\* line 126, get_keybinds (lines 25-31): the list the command printed, or,
\* when the command or the parse fails, json.loads("{}"), an empty dict,
\* which the callers iterate like an empty list
GetKeybinds ==
    /\ pc = "start"
    /\ \E ok \in BOOLEAN : binds' = IF ok THEN source ELSE <<>>
    /\ pc' = "fetched"
    /\ UNCHANGED <<source, no_group, wait, sort, processed, flat, width, out, exit_code,
                   term_mode, old_settings, restored, pending, exc, arg, match1, match2>>

\* line 127
Process ==
    /\ pc = "fetched"
    /\ processed' = IF no_group THEN binds ELSE group_keybinds(binds)
    /\ pc' = "processed"
    /\ UNCHANGED <<source, no_group, wait, sort, binds, flat, width, out, exit_code,
                   term_mode, old_settings, restored, pending, exc, arg, match1, match2>>

\* line 128
Normalize ==
    /\ pc = "processed"
    /\ flat' = normalize_keybinds(processed)
    /\ pc' = "normalized"
    /\ UNCHANGED <<source, no_group, wait, sort, binds, processed, width, out, exit_code,
                   term_mode, old_settings, restored, pending, exc, arg, match1, match2>>

\* lines 130-132
SizeAndSort ==
    /\ pc = "normalized"
    /\ \E w \in TermWidths : width' = w
    /\ flat' = IF sort THEN SortByKey(flat) ELSE flat
    /\ pc' = "ready"
    /\ UNCHANGED <<source, no_group, wait, sort, binds, processed, out, exit_code,
                   term_mode, old_settings, restored, pending, exc, arg, match1, match2>>

\* lines 133-136: an exception of draw_table ends the process with a
\* traceback and status 1
DrawTable ==
    /\ pc = "ready"
    /\ LET r == draw_table(flat, width)
       IN /\ out' = r.lines
          /\ pc' = IF ~r.raised /\ wait THEN "wait_getattr" ELSE "exit"
          /\ exit_code' = IF r.raised THEN 1 ELSE IF wait THEN exit_code ELSE 0
    /\ UNCHANGED <<source, no_group, wait, sort, binds, processed, flat, width,
                   term_mode, old_settings, restored, pending, exc, arg, match1, match2>>

\* termios.tcsetattr(fd, when, settings): the mode after the call
tcsetattr(mode, settings, ok) == IF ok THEN settings ELSE mode

\* line 111, outside the try block
TcGetAttr ==
    /\ pc = "wait_getattr"
    /\ \E ok \in BOOLEAN :
          /\ old_settings' = IF ok THEN term_mode ELSE old_settings
          /\ pc' = IF ok THEN "wait_setraw" ELSE "exit"
          /\ exit_code' = IF ok THEN exit_code ELSE 1
    /\ UNCHANGED <<source, no_group, wait, sort, binds, processed, flat, width, out,
                   term_mode, restored, pending, exc, arg, match1, match2>>

\* line 113
SetRaw ==
    /\ pc = "wait_setraw"
    /\ \E ok \in BOOLEAN :
          /\ term_mode' = tcsetattr(term_mode, "raw", ok)
          /\ pending' = IF ok THEN "none" ELSE "setraw"
          /\ exc' = IF ok THEN "none" ELSE "error"
          /\ pc' = IF ok THEN "wait_read" ELSE "wait_finally"
    /\ UNCHANGED <<source, no_group, wait, sort, binds, processed, flat, width, out,
                   exit_code, old_settings, restored, arg, match1, match2>>

\* the ways sys.stdin.read(1) ends: a byte, an OSError, or SIGINT delivered
\* while it blocks (KeyboardInterrupt)
ReadOutcomes == {"byte", "error", "KeyboardInterrupt"}

\* a wrong variant: no finally clause, a failed read leaves the function at once
ReadKeyNoFinally ==
    /\ pc = "wait_read"
    /\ \E r \in ReadOutcomes :
          /\ pending' = IF r = "byte" THEN "none" ELSE "read"
          /\ exc' = IF r = "byte" THEN "none" ELSE r
          /\ pc' = IF r = "byte" THEN "wait_finally" ELSE "exit"
          /\ exit_code' = IF r = "byte" THEN exit_code
                          ELSE IF r = "KeyboardInterrupt" THEN -2 ELSE 1
    /\ UNCHANGED <<source, no_group, wait, sort, binds, processed, flat, width, out,
                   term_mode, old_settings, restored, arg, match1, match2>>

\* line 114: the read returns one byte, or fails, or is interrupted
ReadKey ==
    /\ pc = "wait_read"
    /\ \E r \in ReadOutcomes :
          /\ pending' = IF r = "byte" THEN "none" ELSE "read"
          /\ exc' = IF r = "byte" THEN "none" ELSE r
    /\ pc' = "wait_finally"
    /\ UNCHANGED <<source, no_group, wait, sort, binds, processed, flat, width, out,
                   exit_code, term_mode, old_settings, restored, arg, match1, match2>>

\* the status the process ends with when main returns or an exception
\* leaves it: 0, 1 with a traceback, or death by SIGINT (-2) for an
\* unhandled KeyboardInterrupt
ExitStatus(e) == IF e = "none" THEN 0 ELSE IF e = "KeyboardInterrupt" THEN -2 ELSE 1

\* lines 115-116, then the return to main and the end of the process; a
\* failing tcsetattr raises termios.error in place of the pending exception
Restore ==
    /\ pc = "wait_finally"
    /\ \E ok \in BOOLEAN :
          /\ term_mode' = tcsetattr(term_mode, old_settings, ok)
          /\ restored' = IF ok THEN "ok" ELSE "failed"
          /\ exit_code' = IF ok THEN ExitStatus(exc) ELSE 1
    /\ pc' = "exit"
    /\ UNCHANGED <<source, no_group, wait, sort, binds, processed, flat, width, out,
                   old_settings, pending, exc, arg, match1, match2>>

Next ==
    \/ GetKeybinds
    \/ Process
    \/ Normalize
    \/ SizeAndSort
    \/ DrawTable
    \/ TcGetAttr
    \/ SetRaw
    \/ ReadKey
    \/ Restore

Spec == Init /\ [][Next]_vars

(***************************************************************************)
(* The fingerprint applied to an argument, and to its own result.          *)
(***************************************************************************)
InitFP ==
    /\ arg \in TokenStrings
    /\ pc = "fp_start"
    /\ match1 = <<>>
    /\ match2 = <<>>
    /\ source = <<>>
    /\ no_group = FALSE
    /\ wait = FALSE
    /\ sort = FALSE
    /\ binds = <<>>
    /\ processed = <<>>
    /\ flat = <<>>
    /\ width = 0
    /\ out = <<>>
    /\ exit_code = -1
    /\ term_mode = "cooked"
    /\ old_settings = "unset"
    /\ restored = "no"
    /\ pending = "none"
    /\ exc = "none"

\* lines 55-56 on arg
FingerprintOnce ==
    /\ pc = "fp_start"
    /\ match1' = Fingerprint(arg)
    /\ pc' = "fp_once"
    /\ UNCHANGED <<source, no_group, wait, sort, binds, processed, flat, width, out,
                   exit_code, term_mode, old_settings, restored, pending, exc, arg, match2>>

\* lines 55-56 on the result
FingerprintTwice ==
    /\ pc = "fp_once"
    /\ match2' = Fingerprint(match1)
    /\ pc' = "fp_twice"
    /\ UNCHANGED <<source, no_group, wait, sort, binds, processed, flat, width, out,
                   exit_code, term_mode, old_settings, restored, pending, exc, arg, match1>>

NextFP == FingerprintOnce \/ FingerprintTwice

SpecFP == InitFP /\ [][NextFP]_vars

(***************************************************************************)
(* Vocabulary of the properties.                                           *)
(***************************************************************************)
\* the label the modifier table of the documentation gives a mask of the inputs
ExpectedLabel(m) ==
    CASE m = 64 -> <<"S", "U", "P", "E", "R">>
      [] m = 0 -> <<>>
      [] m = 8 -> <<"M", "O", "D", "_", "8">>

\* the items of parts, one "/" between two neighbours
RECURSIVE SlashList(_)
SlashList(parts) ==
    IF Len(parts) = 0 THEN <<>>
    ELSE IF Len(parts) = 1 THEN parts[1]
    ELSE SlashList(SubSeq(parts, 1, Len(parts) - 1)) \o <<"/">> \o parts[Len(parts)]

\* s.split("/"), as a set
RECURSIVE SlashItems(_)
SlashItems(s) ==
    LET cut == {i \in 1..Len(s) : s[i] = "/"}
    IN IF cut = {} THEN {s}
       ELSE LET c == CHOOSE i \in cut : \A j \in cut : i <= j
            IN {SubSeq(s, 1, c - 1)} \cup SlashItems(Drop(s, c))

\* the class of a raw binding: (modmask, dispatcher, arg-shape fingerprint)
ClassKey(b) == <<b.modmask, b.dispatcher, Fingerprint(b.arg)>>

ClassKeys(bs) == {ClassKey(bs[i]) : i \in 1..Len(bs)}

\* the members of class k in input order
Members(bs, k) == SelectSeq(bs, LAMBDA b : ClassKey(b) = k)

\* position of the first member of class k in the input
FirstIndex(bs, k) ==
    CHOOSE i \in 1..Len(bs) : ClassKey(bs[i]) = k /\ \A j \in 1..(i - 1) : ClassKey(bs[j]) # k

KeysOf(bs) == [i \in 1..Len(bs) |-> bs[i].key]
ArgsOf(bs) == [i \in 1..Len(bs) |-> bs[i].arg]

\* a record of the display shape
IsDisplay(r) == DOMAIN r = {"key", "action"}

\* s without the longest of the prefixes ps that it starts with
StripPrefix(s, ps) ==
    LET hits == {q \in ps : StartsWith(s, q)}
    IN IF hits = {} THEN s
       ELSE Drop(s, Len(CHOOSE q \in hits : \A r \in hits : Len(r) <= Len(q)))

\* a key label without the modifier label and the "+" put before the keys
StripModifier(label, bs) ==
    StripPrefix(label, {ExpectedLabel(bs[i].modmask) \o <<"+">> : i \in 1..Len(bs)})

\* an action without the dispatcher and the blank put before the arguments
StripDispatcher(action, bs) ==
    StripPrefix(action, {bs[i].dispatcher \o <<" ">> : i \in 1..Len(bs)})

\* the keys and the args read back from the rows
RowKeys(rows, bs) ==
    UNION {SlashItems(StripModifier(rows[i].key, bs)) : i \in 1..Len(rows)}
RowArgs(rows, bs) ==
    UNION {SlashItems(StripDispatcher(rows[i].action, bs)) : i \in 1..Len(rows)}

\* no key and no arg of the input holds a "/"
NoSlash(bs) ==
    \A i \in 1..Len(bs) :
        /\ \A j \in 1..Len(bs[i].key) : bs[i].key[j] # "/"
        /\ \A j \in 1..Len(bs[i].arg) : bs[i].arg[j] # "/"

\* draw_table has run
Drawn == pc \in {"exit", "wait_getattr", "wait_setraw", "wait_read", "wait_finally"}

(***************************************************************************)
(* Properties.                                                             *)
(***************************************************************************)
\* C1: with an empty binding sequence draw_table raises nothing: it prints a
\* header-only table and the program ends with exit code 0.
C1_EmptyInputRendersHeader ==
    (Drawn /\ binds = <<>>) =>
        /\ Len(out) >= 3
        /\ (pc = "exit" /\ ~wait) => exit_code = 0

\* C2: group_keybinds returns exactly one record per (modmask, dispatcher,
\* fingerprint) class: the raw binding itself for a class of one member, and
\* for a larger class the merged record with key label+keys joined by "/" and
\* action dispatcher+args joined by "/", members in input order.
C2_OneRecordPerClass ==
    (pc = "processed" /\ ~no_group) =>
        /\ Len(processed) = Cardinality(ClassKeys(binds))
        /\ \A k \in ClassKeys(binds) :
              LET m == Members(binds, k)
              IN \E p \in 1..Len(processed) :
                    processed[p] =
                        IF Len(m) = 1 THEN m[1]
                        ELSE [key |-> ExpectedLabel(k[1]) \o <<"+">> \o SlashList(KeysOf(m)),
                              action |-> k[2] \o <<" ">> \o SlashList(ArgsOf(m))]

\* C2 witness: the two movewindow bindings of SUPER merged into one row
C2_Witness ==
    /\ pc = "processed"
    /\ ~no_group
    /\ binds = <<BindLeft, BindRight>>
    /\ processed =
          << [key |-> <<"S", "U", "P", "E", "R", "+", "L", "e", "f", "t", "/",
                        "R", "i", "g", "h", "t">>,
              action |-> <<"m", "o", "v", "e", "w", "i", "n", "d", "o", "w", " ",
                           "l", "/", "r">>] >>

\* C3: a merged class whose modifier label is empty gets the key label
\* key1/.../keyN, without a leading "+".
C3_EmptyModifierOmitsPlus ==
    (pc = "processed" /\ ~no_group) =>
        \A k \in ClassKeys(binds) :
            LET m == Members(binds, k)
            IN (Len(m) >= 2 /\ ExpectedLabel(k[1]) = <<>>) =>
                  \E p \in 1..Len(processed) :
                      /\ IsDisplay(processed[p])
                      /\ processed[p].key = SlashList(KeysOf(m))
                      /\ processed[p].action = k[2] \o <<" ">> \o SlashList(ArgsOf(m))

\* C4 as stated: after grouping and normalizing, the keys and the args read
\* back from the rows by splitting on "/" are the keys and the args of the input.
C4_LosslessAnyInput ==
    (pc = "normalized" /\ ~no_group) =>
        /\ RowKeys(flat, binds) = {binds[i].key : i \in 1..Len(binds)}
        /\ RowArgs(flat, binds) = {binds[i].arg : i \in 1..Len(binds)}

\* C4 amended: the same, for inputs in which no key and no arg holds a "/".
C4_LosslessWithoutSlash ==
    (pc = "normalized" /\ ~no_group /\ NoSlash(binds)) =>
        /\ RowKeys(flat, binds) = {binds[i].key : i \in 1..Len(binds)}
        /\ RowArgs(flat, binds) = {binds[i].arg : i \in 1..Len(binds)}

\* C4 witness: three bindings without "/" grouped into two rows, one merged
C4_Witness ==
    /\ pc = "normalized"
    /\ ~no_group
    /\ binds = <<BindBar, BindF1, BindBad>>
    /\ Len(flat) = 2
    /\ RowArgs(flat, binds) = {BindBar.arg, BindBad.arg, BindF1.arg}

\* C5: with --no-group normalize_keybinds returns one display record per
\* input binding, record i being label+key (the key alone for an empty
\* label, MOD_<n> for an unknown mask) and dispatcher+arg of binding i.
C5_NormalizerOneToOne ==
    (pc = "normalized" /\ no_group) =>
        /\ Len(flat) = Len(binds)
        /\ \A i \in 1..Len(binds) :
              LET b == binds[i]
                  label == ExpectedLabel(b.modmask)
              IN flat[i] = [key |-> IF label = <<>> THEN b.key ELSE label \o <<"+">> \o b.key,
                            action |-> b.dispatcher \o <<" ">> \o b.arg]

\* C5 witness: an unknown mask, an empty label and a repeated binding, kept apart
C5_Witness ==
    /\ pc = "normalized"
    /\ no_group
    /\ binds = <<BindF1, BindBar, BindBar>>
    /\ Len(flat) = 3
    /\ flat[1].key = <<"M", "O", "D", "_", "8", "+", "F", "1">>
    /\ flat[2].key = <<"Q">>

\* C6: every line draw_table prints for a non-empty sequence holds the three
\* border characters and key_width + action_width cells, key_width +
\* action_width + 1 being the requested width.
C6_LinesFitWidth ==
    (Drawn /\ flat # <<>>) =>
        \A i \in 1..Len(out) : Len(out[i]) = width + 2

\* C7: once the original settings have been read, wait_for_any_key does not
\* exit before calling tcsetattr with them, and the terminal is back in the
\* original mode when that call succeeds, also after a failed setraw or read.
C7_TerminalRestored ==
    (pc = "exit" /\ old_settings # "unset") =>
        /\ restored # "no"
        /\ restored = "ok" => term_mode = old_settings

\* C7 witness: the read was interrupted in raw mode and the terminal was
\* restored before the process ended by SIGINT
C7_Witness ==
    /\ pc = "exit"
    /\ old_settings = "cooked"
    /\ pending = "read"
    /\ exc = "KeyboardInterrupt"
    /\ restored = "ok"
    /\ term_mode = "cooked"
    /\ exit_code = -2

\* C8: without --sort, of two rows the one whose earliest contributing
\* binding comes first in the source list is rendered first.
C8_ConfigFileOrder ==
    (pc = "ready" /\ ~sort) =>
        IF no_group
        THEN \A i, j \in 1..Len(binds) :
                i < j => \E p, q \in 1..Len(flat) :
                            /\ p < q
                            /\ flat[p] = NormalizeOne(binds[i])
                            /\ flat[q] = NormalizeOne(binds[j])
        ELSE \A k1, k2 \in ClassKeys(binds) :
                FirstIndex(binds, k1) < FirstIndex(binds, k2) =>
                    \E p, q \in 1..Len(flat) :
                        /\ p < q
                        /\ flat[p] = NormalizeOne(EmitGroup(k1[2], Members(binds, k1))[1])
                        /\ flat[q] = NormalizeOne(EmitGroup(k2[2], Members(binds, k2))[1])

\* C9: the fingerprint transform applied to its own result changes nothing.
C9_FingerprintIdempotent == pc = "fp_twice" => match2 = match1

\* C9 witness: an argument with a direction word and a digit, transformed twice
C9_Witness ==
    /\ pc = "fp_twice"
    /\ arg = <<"l", "e", "f", "t", "1", "x">>
    /\ match1 = <<".", ".", ".", ".", "x">>

\* a and b are different words of one length that differ only in letters
\* l, r, u, d, and hold none of the words left, right, up, down
DifferInInnerLetters(a, b) ==
    /\ Len(a) = Len(b)
    /\ Len(a) >= 2
    /\ a # b
    /\ \A i \in 1..Len(a) : a[i] # b[i] => {a[i], b[i]} \subseteq {"l", "r", "u", "d"}
    /\ \A s \in {a, b} : \A i \in 1..Len(s) : \A w \in 1..4 :
          ~StartsWith(Drop(s, i - 1), Directions[w])

\* C10 as stated: two bindings of one modifier and dispatcher whose arguments
\* differ only in letters l, r, u, d inside a longer word are not merged.
C10_InnerLettersNotMerged ==
    (pc = "processed" /\ ~no_group) =>
        \A i, j \in 1..Len(binds) :
            ( /\ binds[i].modmask = binds[j].modmask
              /\ binds[i].dispatcher = binds[j].dispatcher
              /\ DifferInInnerLetters(binds[i].arg, binds[j].arg) ) =>
                /\ \E p \in 1..Len(processed) : processed[p] = binds[i]
                /\ \E p \in 1..Len(processed) : processed[p] = binds[j]

\* C10 amended: the fingerprint replaces l, r, u, d inside a longer word too,
\* so two such bindings have one fingerprint and are merged into one row.
C10_InnerLettersMerged ==
    (pc = "processed" /\ ~no_group) =>
        \A i, j \in 1..Len(binds) :
            ( /\ binds[i].modmask = binds[j].modmask
              /\ binds[i].dispatcher = binds[j].dispatcher
              /\ DifferInInnerLetters(binds[i].arg, binds[j].arg) ) =>
                /\ \A p \in 1..Len(processed) :
                      processed[p] # binds[i] /\ processed[p] # binds[j]
                /\ ClassKey(binds[i]) = ClassKey(binds[j])
                /\ \E p \in 1..Len(processed) :
                      /\ IsDisplay(processed[p])
                      /\ processed[p].action =
                            binds[i].dispatcher \o <<" ">>
                            \o SlashList(ArgsOf(Members(binds, ClassKey(binds[i]))))

\* C10 witness: exec bar and exec bad merged into one row
C10_Witness ==
    /\ pc = "processed"
    /\ ~no_group
    /\ binds = <<BindBar, BindBad>>
    /\ Len(processed) = 1
    /\ processed[1].action = <<"e", "x", "e", "c", " ", "b", "a", "r", "/", "b", "a", "d">>

====
